---- MODULE Spec2Model ----
(***************************************************************************)
(* Bag-of-Words sentiment pipeline of udacity_NLP_testing_v1.1.ipynb:      *)
(* load_data, review_to_words / clean_data, make_BoW_transform,            *)
(* BoW_transform.transform, sklearn.preprocessing.normalize and            *)
(* perform_classification.                                                 *)
(*                                                                         *)
(* A text is a sequence of one-character strings, so that markup           *)
(* stripping, the regular expression, lower(), split(), the stemmer and    *)
(* join() are computed character by character.                             *)
(***************************************************************************)
EXTENDS Integers, Sequences, FiniteSets, TLC

(***************************************************************************)
(* Characters                                                              *)
(***************************************************************************)
Letters ==
  <<"a","b","c","d","e","f","g","h","i","j","k","l","m","n","o","p","q","r","s","t","u","v","w","x","y","z">>

Capitals ==
  <<"A","B","C","D","E","F","G","H","I","J","K","L","M","N","O","P","Q","R","S","T","U","V","W","X","Y","Z">>

IsLower(c) == \E i \in 1..Len(Letters) : Letters[i] = c

IsUpper(c) == \E i \in 1..Len(Capitals) : Capitals[i] = c

\* the position of a lowercase letter in the alphabet (its code point order)
Ord(c) == CHOOSE i \in 1..Len(Letters) : Letters[i] = c

Min(S) == CHOOSE x \in S : \A y \in S : x <= y

RECURSIVE Concat(_)
\* the concatenation of a sequence of texts
Concat(ts) == IF ts = <<>> THEN <<>> ELSE Head(ts) \o Concat(Tail(ts))

(***************************************************************************)
(* review_to_words, line by line                                           *)
(***************************************************************************)
RECURSIVE get_text(_)
\* BeautifulSoup(raw_review).get_text(): the text with every tag "<...>"
\* taken out (nothing is put in its place); a "<" that no ">" closes is text
get_text(markup) ==
  IF markup = <<>> THEN <<>>
  ELSE IF Head(markup) = "<" /\ \E j \in 2..Len(markup) : markup[j] = ">"
       THEN LET close == Min({j \in 2..Len(markup) : markup[j] = ">"})
            IN  get_text(SubSeq(markup, close + 1, Len(markup)))
       ELSE <<Head(markup)>> \o get_text(Tail(markup))

\* re.sub("[^a-zA-Z]", " ", review_text)
re_sub_non_letters(review_text) ==
  [i \in 1..Len(review_text) |->
     IF IsLower(review_text[i]) \/ IsUpper(review_text[i])
     THEN review_text[i] ELSE " "]

lower_missing(text) == text

\* str.lower()
lower(text) ==
  [i \in 1..Len(text) |->
     IF IsUpper(text[i])
     THEN Letters[CHOOSE k \in 1..Len(Capitals) : Capitals[k] = text[i]]
     ELSE text[i]]

RECURSIVE SplitFrom(_, _, _)
SplitFrom(text, word, acc) ==
  IF text = <<>>
  THEN IF word = <<>> THEN acc ELSE Append(acc, word)
  ELSE IF Head(text) = " "
       THEN SplitFrom(Tail(text), <<>>, IF word = <<>> THEN acc ELSE Append(acc, word))
       ELSE SplitFrom(Tail(text), Append(word, Head(text)), acc)

\* str.split(): the maximal runs of non-blank characters, in order
split(text) == SplitFrom(text, <<>>, <<>>)

RECURSIVE join(_, _)
\* sep.join(words)
join(sep, words) ==
  IF words = <<>> THEN <<>>
  ELSE IF Len(words) = 1 THEN words[1]
  ELSE words[1] \o sep \o join(sep, Tail(words))

\* nltk's stopwords.words("english")
stopwords_english ==
  {
    <<"i">>, <<"m","e">>, <<"m","y">>, <<"m","y","s","e","l","f">>,
    <<"w","e">>, <<"o","u","r">>, <<"o","u","r","s">>, <<"o","u","r","s","e","l","v","e","s">>,
    <<"y","o","u">>, <<"y","o","u","r">>, <<"y","o","u","r","s">>, <<"y","o","u","r","s","e","l","f">>,
    <<"y","o","u","r","s","e","l","v","e","s">>, <<"h","e">>, <<"h","i","m">>, <<"h","i","s">>,
    <<"h","i","m","s","e","l","f">>, <<"s","h","e">>, <<"h","e","r">>, <<"h","e","r","s">>,
    <<"h","e","r","s","e","l","f">>, <<"i","t">>, <<"i","t","s">>, <<"i","t","s","e","l","f">>,
    <<"t","h","e","y">>, <<"t","h","e","m">>, <<"t","h","e","i","r">>, <<"t","h","e","i","r","s">>,
    <<"t","h","e","m","s","e","l","v","e","s">>, <<"w","h","a","t">>, <<"w","h","i","c","h">>, <<"w","h","o">>,
    <<"w","h","o","m">>, <<"t","h","i","s">>, <<"t","h","a","t">>, <<"t","h","e","s","e">>,
    <<"t","h","o","s","e">>, <<"a","m">>, <<"i","s">>, <<"a","r","e">>,
    <<"w","a","s">>, <<"w","e","r","e">>, <<"b","e">>, <<"b","e","e","n">>,
    <<"b","e","i","n","g">>, <<"h","a","v","e">>, <<"h","a","s">>, <<"h","a","d">>,
    <<"h","a","v","i","n","g">>, <<"d","o">>, <<"d","o","e","s">>, <<"d","i","d">>,
    <<"d","o","i","n","g">>, <<"a">>, <<"a","n">>, <<"t","h","e">>,
    <<"a","n","d">>, <<"b","u","t">>, <<"i","f">>, <<"o","r">>,
    <<"b","e","c","a","u","s","e">>, <<"a","s">>, <<"u","n","t","i","l">>, <<"w","h","i","l","e">>,
    <<"o","f">>, <<"a","t">>, <<"b","y">>, <<"f","o","r">>,
    <<"w","i","t","h">>, <<"a","b","o","u","t">>, <<"a","g","a","i","n","s","t">>, <<"b","e","t","w","e","e","n">>,
    <<"i","n","t","o">>, <<"t","h","r","o","u","g","h">>, <<"d","u","r","i","n","g">>, <<"b","e","f","o","r","e">>,
    <<"a","f","t","e","r">>, <<"a","b","o","v","e">>, <<"b","e","l","o","w">>, <<"t","o">>,
    <<"f","r","o","m">>, <<"u","p">>, <<"d","o","w","n">>, <<"i","n">>,
    <<"o","u","t">>, <<"o","n">>, <<"o","f","f">>, <<"o","v","e","r">>,
    <<"u","n","d","e","r">>, <<"a","g","a","i","n">>, <<"f","u","r","t","h","e","r">>, <<"t","h","e","n">>,
    <<"o","n","c","e">>, <<"h","e","r","e">>, <<"t","h","e","r","e">>, <<"w","h","e","n">>,
    <<"w","h","e","r","e">>, <<"w","h","y">>, <<"h","o","w">>, <<"a","l","l">>,
    <<"a","n","y">>, <<"b","o","t","h">>, <<"e","a","c","h">>, <<"f","e","w">>,
    <<"m","o","r","e">>, <<"m","o","s","t">>, <<"o","t","h","e","r">>, <<"s","o","m","e">>,
    <<"s","u","c","h">>, <<"n","o">>, <<"n","o","r">>, <<"n","o","t">>,
    <<"o","n","l","y">>, <<"o","w","n">>, <<"s","a","m","e">>, <<"s","o">>,
    <<"t","h","a","n">>, <<"t","o","o">>, <<"v","e","r","y">>, <<"s">>,
    <<"t">>, <<"c","a","n">>, <<"w","i","l","l">>, <<"j","u","s","t">>,
    <<"d","o","n">>, <<"s","h","o","u","l","d">>, <<"n","o","w">>
  }

(***************************************************************************)
(* stemmer.stem: the Porter stemmer (nltk.stem.porter.PorterStemmer)       *)
(***************************************************************************)
RECURSIVE IsCons(_, _)
\* a consonant is a letter other than a, e, i, o, u and other than a y that
\* follows a consonant
IsCons(w, i) ==
  IF w[i] \in {"a", "e", "i", "o", "u"} THEN FALSE
  ELSE IF w[i] = "y" THEN (IF i = 1 THEN TRUE ELSE ~IsCons(w, i - 1))
  ELSE TRUE

\* m: the number of vowel-consonant sequences of [C](VC)^m[V]
Measure(w) == Cardinality({i \in 2..Len(w) : ~IsCons(w, i - 1) /\ IsCons(w, i)})

ContainsVowel(w) == \E i \in 1..Len(w) : ~IsCons(w, i)

\* *d
EndsDoubleCons(w) ==
  Len(w) >= 2 /\ w[Len(w)] = w[Len(w) - 1] /\ IsCons(w, Len(w))

\* *o: consonant, vowel, consonant, the last not w, x or y
EndsCVC(w) ==
  /\ Len(w) >= 3
  /\ IsCons(w, Len(w) - 2) /\ ~IsCons(w, Len(w) - 1) /\ IsCons(w, Len(w))
  /\ w[Len(w)] \notin {"w", "x", "y"}

EndsWith(w, s) == Len(w) >= Len(s) /\ SubSeq(w, Len(w) - Len(s) + 1, Len(w)) = s

DropLast(w, n) == SubSeq(w, 1, Len(w) - n)

Step1a(w) ==
  IF EndsWith(w, <<"s","s","e","s">>) THEN DropLast(w, 2)
  ELSE IF EndsWith(w, <<"i","e","s">>) THEN DropLast(w, 2)
  ELSE IF EndsWith(w, <<"s","s">>) THEN w
  ELSE IF EndsWith(w, <<"s">>) THEN DropLast(w, 1)
  ELSE w

\* what step 1b does to the stem left by removing "ed" or "ing"
Step1bTidy(w) ==
  IF \/ EndsWith(w, <<"a","t">>) \/ EndsWith(w, <<"b","l">>)
     \/ EndsWith(w, <<"i","z">>)
  THEN Append(w, "e")
  ELSE IF EndsDoubleCons(w) /\ w[Len(w)] \notin {"l", "s", "z"} THEN DropLast(w, 1)
  ELSE IF Measure(w) = 1 /\ EndsCVC(w) THEN Append(w, "e")
  ELSE w

Step1b(w) ==
  IF EndsWith(w, <<"e","e","d">>)
  THEN IF Measure(DropLast(w, 3)) > 0 THEN DropLast(w, 1) ELSE w
  ELSE IF EndsWith(w, <<"e","d">>)
  THEN IF ContainsVowel(DropLast(w, 2)) THEN Step1bTidy(DropLast(w, 2)) ELSE w
  ELSE IF EndsWith(w, <<"i","n","g">>)
  THEN IF ContainsVowel(DropLast(w, 3)) THEN Step1bTidy(DropLast(w, 3)) ELSE w
  ELSE w

Step1c(w) ==
  IF EndsWith(w, <<"y">>) /\ ContainsVowel(DropLast(w, 1))
  THEN Append(DropLast(w, 1), "i")
  ELSE w

\* <<suffix, replacement>>, a longer suffix before any suffix of it
Step2Rules ==
  <<
    <<<<"a","t","i","o","n","a","l">>, <<"a","t","e">>>>,
    <<<<"i","z","a","t","i","o","n">>, <<"i","z","e">>>>,
    <<<<"i","v","e","n","e","s","s">>, <<"i","v","e">>>>,
    <<<<"f","u","l","n","e","s","s">>, <<"f","u","l">>>>,
    <<<<"o","u","s","n","e","s","s">>, <<"o","u","s">>>>,
    <<<<"t","i","o","n","a","l">>, <<"t","i","o","n">>>>,
    <<<<"b","i","l","i","t","i">>, <<"b","l","e">>>>,
    <<<<"e","n","t","l","i">>, <<"e","n","t">>>>,
    <<<<"o","u","s","l","i">>, <<"o","u","s">>>>,
    <<<<"a","t","i","o","n">>, <<"a","t","e">>>>,
    <<<<"a","l","i","s","m">>, <<"a","l">>>>,
    <<<<"a","l","i","t","i">>, <<"a","l">>>>,
    <<<<"i","v","i","t","i">>, <<"i","v","e">>>>,
    <<<<"e","n","c","i">>, <<"e","n","c","e">>>>,
    <<<<"a","n","c","i">>, <<"a","n","c","e">>>>,
    <<<<"i","z","e","r">>, <<"i","z","e">>>>,
    <<<<"a","b","l","i">>, <<"a","b","l","e">>>>,
    <<<<"a","l","l","i">>, <<"a","l">>>>,
    <<<<"a","t","o","r">>, <<"a","t","e">>>>,
    <<<<"e","l","i">>, <<"e">>>>
  >>

Step3Rules ==
  <<
    <<<<"i","c","a","t","e">>, <<"i","c">>>>,
    <<<<"a","t","i","v","e">>, <<>>>>,
    <<<<"a","l","i","z","e">>, <<"a","l">>>>,
    <<<<"i","c","i","t","i">>, <<"i","c">>>>,
    <<<<"i","c","a","l">>, <<"i","c">>>>,
    <<<<"n","e","s","s">>, <<>>>>,
    <<<<"f","u","l">>, <<>>>>
  >>

Step4Suffixes ==
  <<
    <<"e","m","e","n","t">>, <<"a","n","c","e">>, <<"e","n","c","e">>, <<"a","b","l","e">>, <<"i","b","l","e">>,
    <<"m","e","n","t">>, <<"a","n","t">>, <<"e","n","t">>, <<"i","o","n">>, <<"i","s","m">>,
    <<"a","t","e">>, <<"i","t","i">>, <<"o","u","s">>, <<"i","v","e">>, <<"i","z","e">>,
    <<"a","l">>, <<"e","r">>, <<"i","c">>, <<"o","u">>
  >>

\* the longest suffix of the table that ends w is replaced when the stem
\* before it has a measure above m
ReplaceSuffix(w, rules, m) ==
  LET hits == {i \in 1..Len(rules) : EndsWith(w, rules[i][1])}
  IN  IF hits = {} THEN w
      ELSE LET r == rules[Min(hits)]
               st == DropLast(w, Len(r[1]))
           IN  IF Measure(st) > m THEN st \o r[2] ELSE w

Step2(w) == ReplaceSuffix(w, Step2Rules, 0)

Step3(w) == ReplaceSuffix(w, Step3Rules, 0)

Step4(w) ==
  LET hits == {i \in 1..Len(Step4Suffixes) : EndsWith(w, Step4Suffixes[i])}
  IN  IF hits = {} THEN w
      ELSE LET suf == Step4Suffixes[Min(hits)]
               st == DropLast(w, Len(suf))
           IN  IF /\ Measure(st) > 1
                  /\ (suf = <<"i","o","n">> =>
                        st # <<>> /\ st[Len(st)] \in {"s", "t"})
               THEN st ELSE w

Step5a(w) ==
  IF EndsWith(w, <<"e">>)
  THEN LET st == DropLast(w, 1)
       IN  IF Measure(st) > 1 \/ (Measure(st) = 1 /\ ~EndsCVC(st)) THEN st ELSE w
  ELSE w

Step5b(w) ==
  IF Measure(w) > 1 /\ EndsDoubleCons(w) /\ w[Len(w)] = "l" THEN DropLast(w, 1) ELSE w

\* stemmer.stem(word); a word of one or two letters is returned as it is
stem(word) ==
  IF Len(word) <= 2 THEN word
  ELSE Step5b(Step5a(Step4(Step3(Step2(Step1c(Step1b(Step1a(word))))))))

(***************************************************************************)
(* State                                                                   *)
(***************************************************************************)
VARIABLES
  stopwords,              \* the stop-word list nltk serves (cell 1)
  stemmer,                \* stemmer = PorterStemmer() (cell 1)
  training_file,          \* training_data.tsv
  testing_file,           \* testing_data.tsv
  BoW_transform_pkl,      \* what was dumped to BoW_transform.pkl, in order
  learned_booster_pkl,    \* what was dumped to learned_booster.pkl, in order
  stdout,                 \* the lines printed, in order
  pc,                     \* the last cell that ran, or "failed"
  error,                  \* the call that raised, "" while none has
  training_data, training_labels,
  testing_data, testing_labels,
  clean_training_data, clean_testing_data,
  BoW_transform,          \* the fitted vocabulary_, in feature order
  training_BoW_features, testing_BoW_features,
  clf,                    \* the classifier of perform_classification
  raw_review,             \* the argument of a direct call of review_to_words
  result                  \* what successive direct calls returned

vars ==
  <<stopwords, stemmer, training_file, testing_file, BoW_transform_pkl,
    learned_booster_pkl, stdout, pc, error, training_data, training_labels,
    testing_data, testing_labels, clean_training_data, clean_testing_data,
    BoW_transform, training_BoW_features, testing_BoW_features, clf,
    raw_review, result>>

env == <<stopwords, stemmer>>

files == <<training_file, testing_file>>

loaded == <<training_data, training_labels, testing_data, testing_labels>>

(***************************************************************************)
(* review_to_words and clean_data                                          *)
(***************************************************************************)
meaningful_words_keep_all(words, stops) == words

\* [w for w in words if not w in stops]
meaningful_words(words, stops) == SelectSeq(words, LAMBDA w : w \notin stops)

\* [stemmer.stem(word) for word in meaningful_words]
stemmed_words(words) == [i \in 1..Len(words) |-> stem(words[i])]

review_to_words_stems_first(review) ==
  LET review_text == get_text(review)
      letters_only == re_sub_non_letters(review_text)
      words == split(lower(letters_only))
      stops == stopwords
  IN  join(<<" ">>, meaningful_words(stemmed_words(words), stops))

\* review_to_words(raw_review): markup out, non-letters to blanks, lower
\* case, split, stop words out, stems, joined by blanks
review_to_words(review) ==
  LET review_text == get_text(review)
      letters_only == re_sub_non_letters(review_text)
      words == split(lower(letters_only))
      stops == stopwords
  IN  join(<<" ">>, stemmed_words(meaningful_words(words, stops)))

\* pd.read_csv reads an empty field as the missing value NaN, a float
NaN == <<"NaN">>

\* BeautifulSoup(raw_review) raises TypeError on a value that is no text
review_to_words_raises(review) == review = NaN

clean_data_raises_never(dataset) == FALSE

\* clean_data raises as soon as one of its reviews does
clean_data_raises(dataset) ==
  \E i \in 1..Len(dataset) : review_to_words_raises(dataset[i])

clean_data_skips_first(dataset) ==
  [i \in 1..Len(dataset) - 1 |-> review_to_words(dataset[i + 1])]

\* one cleaned review per review of the dataset, in dataset order
clean_data(dataset) == [i \in 1..Len(dataset) |-> review_to_words(dataset[i])]

clean_data_call_in_place(dataset) ==
  [cleaned_reviews |-> clean_data(dataset), dataset |-> clean_data(dataset)]

\* the call clean_data(dataset): the list it returns and the dataset object
\* it was handed, which it only reads
clean_data_call(dataset) ==
  [cleaned_reviews |-> clean_data(dataset), dataset |-> dataset]

(***************************************************************************)
(* CountVectorizer(analyzer = "word", tokenizer = None,                    *)
(* preprocessor = None, stop_words = None, max_features = ...)             *)
(***************************************************************************)
\* max_features: 5000 in the notebook, scaled down so that a small corpus
\* holds more distinct tokens than the vectorizer keeps
max_features == 2

RECURSIVE LexLess(_, _)
\* a sorts before b
LexLess(a, b) ==
  IF a = <<>> THEN b # <<>>
  ELSE IF b = <<>> THEN FALSE
  ELSE IF Head(a) = Head(b) THEN LexLess(Tail(a), Tail(b))
  ELSE Ord(Head(a)) < Ord(Head(b))

RECURSIVE SortedSeq(_)
\* the tokens of S in sorted order
SortedSeq(S) ==
  IF S = {} THEN <<>>
  ELSE LET first == CHOOSE x \in S : \A y \in S \ {x} : LexLess(x, y)
       IN  <<first>> \o SortedSeq(S \ {first})

Range(s) == {s[i] : i \in 1..Len(s)}

build_analyzer_single_letters(doc) == split(lower(doc))

\* the analyzer: lowercase, then the matches of token_pattern
\* (?u)\b\w\w+\b, which in a text of letters and blanks are the words of
\* two or more letters
build_analyzer(doc) == SelectSeq(split(lower(doc)), LAMBDA w : Len(w) >= 2)

Occurrences_binary(token, tokens) ==
  IF \E i \in 1..Len(tokens) : tokens[i] = token THEN 1 ELSE 0

\* the number of occurrences of token in a token sequence
Occurrences(token, tokens) == Cardinality({i \in 1..Len(tokens) : tokens[i] = token})

RECURSIVE SumOver(_, _)
SumOver(f, S) ==
  IF S = {} THEN 0
  ELSE LET x == CHOOSE y \in S : TRUE IN f[x] + SumOver(f, S \ {x})

\* the count of each token over the whole corpus
term_frequencies(raw_documents) ==
  LET all == UNION {Range(build_analyzer(raw_documents[d])) : d \in 1..Len(raw_documents)}
  IN  [t \in all |->
         SumOver([d \in 1..Len(raw_documents) |->
                    Occurrences(t, build_analyzer(raw_documents[d]))],
                 1..Len(raw_documents))]

limit_features_alphabetical(tfs, limit) ==
  LET all == DOMAIN tfs
      sorted == SortedSeq(all)
  IN  IF Cardinality(all) <= limit THEN {all}
      ELSE {{sorted[i] : i \in 1..limit}}

\* _limit_features: the (-tfs).argsort()[:limit] terms are kept; argsort
\* leaves the order of equal counts open, so every set of limit terms that
\* no left-out term outnumbers may be the one kept
limit_features(tfs, limit) ==
  LET all == DOMAIN tfs
  IN  IF Cardinality(all) <= limit THEN {all}
      ELSE {K \in SUBSET all :
              /\ Cardinality(K) = limit
              /\ \A k \in K : \A o \in all \ K : tfs[k] >= tfs[o]}

\* CountVectorizer.fit(raw_documents): the vocabularies it may end with, each
\* in feature order; none when no document holds a token (fit raises
\* ValueError: empty vocabulary)
fit(raw_documents) ==
  {SortedSeq(K) : K \in limit_features(term_frequencies(raw_documents), max_features)
                  \ {{}}}

\* one row of the count matrix; a row is kept as the pair (num, den2) and
\* stands for the vector num / sqrt(den2), so counts have den2 = 1
count_row(vocabulary, doc) ==
  [num |-> [j \in 1..Len(vocabulary) |->
              Occurrences(vocabulary[j], build_analyzer(doc))],
   den2 |-> 1]

transform_refit(vocabulary, raw_documents) ==
  [d \in 1..Len(raw_documents) |->
     count_row(SortedSeq(Range(build_analyzer(raw_documents[d]))), raw_documents[d])]

\* BoW_transform.transform(raw_documents).toarray()
transform(vocabulary, raw_documents) ==
  [d \in 1..Len(raw_documents) |-> count_row(vocabulary, raw_documents[d])]

fit_documents_all == clean_training_data \o clean_testing_data

\* the argument of make_BoW_transform in cell 9
fit_documents == clean_training_data

(***************************************************************************)
(* sklearn.preprocessing.normalize(X, axis = 1)                            *)
(***************************************************************************)
RECURSIVE SumSeq(_)
SumSeq(s) == IF s = <<>> THEN 0 ELSE Head(s) + SumSeq(Tail(s))

SumSquares(v) == SumSeq([j \in 1..Len(v) |-> v[j] * v[j]])

normalize_row_l1(row) ==
  [num |-> row.num,
   den2 |-> IF SumSeq(row.num) = 0 THEN row.den2
            ELSE SumSeq(row.num) * SumSeq(row.num)]

\* a row divided by its l2 norm; a norm of 0 is replaced by 1, so a zero
\* row stays as it is
normalize_row(row) ==
  [num |-> row.num,
   den2 |-> IF SumSquares(row.num) = 0 THEN row.den2 ELSE SumSquares(row.num)]

normalize_by_matrix_norm(X) ==
  LET total == SumSeq([d \in 1..Len(X) |-> SumSquares(X[d].num)])
  IN  [d \in 1..Len(X) |->
         [num |-> X[d].num,
          den2 |-> IF total = 0 THEN X[d].den2 ELSE total]]

\* sklearn.preprocessing.normalize(X, axis = 1): every row by its own norm
normalize(X) == [d \in 1..Len(X) |-> normalize_row(X[d])]

(***************************************************************************)
(* GradientBoostingClassifier(n_estimators = 100, learning_rate = 1.0,     *)
(* max_depth = 1, random_state = 0)                                        *)
(***************************************************************************)
unfitted == [fitted |-> FALSE, predict |-> <<>>]

\* clf.fit(X_train, y_train) raises ValueError when the labels hold fewer
\* than two classes (the binomial deviance loss requires 2 classes)
fit_raises(y_train) == Cardinality(Range(y_train)) < 2

\* the classifiers clf.fit may leave: the ensemble itself is not modelled,
\* only that the fitted classifier maps every row to one of the classes seen
\* in y_train, equal rows to the same class
fitted_classifiers(X_train, y_train, X_test) ==
  {[fitted |-> TRUE, predict |-> p] :
     p \in [Range(X_train) \cup Range(X_test) -> Range(y_train)]}

\* an empty sentiment field, which pd.read_csv reads as NaN
missing == -1

\* clf.score(X, y) raises ValueError when y holds NaN: accuracy_score cannot
\* compare such labels with the predicted classes
score_raises(y) == \E i \in 1..Len(y) : y[i] = missing

score_unnormalized(model, X, y) ==
  [correct |-> Cardinality({i \in 1..Len(X) : model.predict[X[i]] = y[i]}),
   total |-> 1]

\* clf.score(X, y): the mean accuracy, the share of the rows whose predicted
\* class is their label, kept as the fraction correct / total
score(model, X, y) ==
  [correct |-> Cardinality({i \in 1..Len(X) : model.predict[X[i]] = y[i]}),
   total |-> Len(X)]

(***************************************************************************)
(* Inputs                                                                  *)
(***************************************************************************)
MaxWords == 2       \* words of a review of training_data.tsv
MaxDocs == 2        \* rows of training_data.tsv
MaxTestWords == 1   \* words of a review of testing_data.tsv
MaxTestDocs == 1    \* rows of testing_data.tsv
MaxPieces == 4      \* pieces of a review handed to review_to_words directly

\* the words the reviews of training_data.tsv are made of
FileWords ==
  { <<"m","o","v","i","e","s">>, <<"l","o","v","e","d">>,
    <<"B","e","i","n","g","s">>, <<"x">> }

\* the words the reviews of testing_data.tsv are made of
TestFileWords ==
  { <<"m","o","v","i","e","s">>, <<"B","e","i","n","g","s">>,
    <<"T","h","e">>, <<"x">> }

\* the pieces a review handed to review_to_words directly is made of
Pieces ==
  { <<"T","h","e">>, <<"B","e","i","n","g","s">>, <<"m","o","v","i","e","s">>,
    <<"a","g","r","e","e","d">>, <<"x">>, <<" ">>, <<"9">>,
    <<"<","b","r"," ","/",">">> }

SeqsUpTo(S, n) == UNION {[1..k -> S] : k \in 0..n}

\* the review fields of at most n words of W; the field of no word is empty
FileReviews(W, n) == {join(<<" ">>, ws) : ws \in SeqsUpTo(W, n)}

RawReviews == {Concat(ps) : ps \in SeqsUpTo(Pieces, MaxPieces)}

\* the sentiment fields of training_data.tsv
Sentiments == {0, 1}

\* the sentiment fields of testing_data.tsv, one of them empty
TestSentiments == {0, 1, missing}

Rows(W, S, n) == [review : FileReviews(W, n), sentiment : S]

NoFile == [exists |-> FALSE, rows |-> <<>>]

\* the files of at most n rows whose reviews hold at most k words of W and
\* whose sentiments are of S
Files(W, S, n, k) ==
  {NoFile} \cup
  {[exists |-> TRUE, rows |-> r] : r \in SeqsUpTo(Rows(W, S, k), n)}

(***************************************************************************)
(* The notebook, cell by cell                                              *)
(***************************************************************************)
InitEnv ==
  /\ stopwords = stopwords_english
  /\ stemmer = "PorterStemmer"

InitNotebook ==
  /\ BoW_transform_pkl = <<>>
  /\ learned_booster_pkl = <<>>
  /\ stdout = <<>>
  /\ pc = "start"
  /\ error = ""
  /\ training_data = <<>> /\ training_labels = <<>>
  /\ testing_data = <<>> /\ testing_labels = <<>>
  /\ clean_training_data = <<>> /\ clean_testing_data = <<>>
  /\ BoW_transform = <<>>
  /\ training_BoW_features = <<>> /\ testing_BoW_features = <<>>
  /\ clf = unfitted

Init ==
  /\ InitEnv
  /\ InitNotebook
  /\ training_file \in Files(FileWords, Sentiments, MaxDocs, MaxWords)
  /\ testing_file \in
       Files(TestFileWords, TestSentiments, MaxTestDocs, MaxTestWords)
  /\ raw_review = <<>>
  /\ result = <<>>

\* load_data(csvname): the review column and the sentiment column; an empty
\* review field is read as NaN
load_data(file) ==
  [data |-> [i \in 1..Len(file.rows) |->
               IF file.rows[i].review = <<>> THEN NaN
               ELSE file.rows[i].review],
   labels |-> [i \in 1..Len(file.rows) |-> file.rows[i].sentiment]]

\* cell 3: both files are read, the training file first; pd.read_csv raises
\* on a file that is not there
LoadData ==
  /\ pc = "start"
  /\ IF ~training_file.exists
     THEN /\ pc' = "failed" /\ error' = "load_data"
          /\ UNCHANGED loaded
     ELSE /\ training_data' = load_data(training_file).data
          /\ training_labels' = load_data(training_file).labels
          /\ IF ~testing_file.exists
             THEN /\ pc' = "failed" /\ error' = "load_data"
                  /\ UNCHANGED <<testing_data, testing_labels>>
             ELSE /\ testing_data' = load_data(testing_file).data
                  /\ testing_labels' = load_data(testing_file).labels
                  /\ pc' = "loaded" /\ UNCHANGED error
  /\ UNCHANGED <<env, files, BoW_transform_pkl, learned_booster_pkl, stdout,
                 clean_training_data, clean_testing_data, BoW_transform,
                 training_BoW_features, testing_BoW_features, clf,
                 raw_review, result>>

\* cell 7: clean_data on the training set, then on the testing set; a call
\* that raises assigns nothing
CleanData ==
  /\ pc = "loaded"
  /\ IF clean_data_raises(training_data)
     THEN /\ pc' = "failed" /\ error' = "clean_data"
          /\ UNCHANGED <<clean_training_data, training_data,
                         clean_testing_data, testing_data>>
     ELSE /\ clean_training_data' =
               clean_data_call(training_data).cleaned_reviews
          /\ training_data' = clean_data_call(training_data).dataset
          /\ IF clean_data_raises(testing_data)
             THEN /\ pc' = "failed" /\ error' = "clean_data"
                  /\ UNCHANGED <<clean_testing_data, testing_data>>
             ELSE /\ clean_testing_data' =
                       clean_data_call(testing_data).cleaned_reviews
                  /\ testing_data' = clean_data_call(testing_data).dataset
                  /\ pc' = "cleaned" /\ UNCHANGED error
  /\ UNCHANGED <<env, files, BoW_transform_pkl, learned_booster_pkl, stdout,
                 training_labels, testing_labels, BoW_transform,
                 training_BoW_features, testing_BoW_features, clf,
                 raw_review, result>>

\* cell 9: make_BoW_transform fits the vectorizer, dumps it, returns it
MakeBoWTransform ==
  /\ pc = "cleaned"
  /\ IF fit(fit_documents) = {}
     THEN /\ pc' = "failed" /\ error' = "BoW_transform.fit"
          /\ UNCHANGED <<BoW_transform, BoW_transform_pkl>>
     ELSE /\ \E vocabulary \in fit(fit_documents) :
               /\ BoW_transform' = vocabulary
               /\ BoW_transform_pkl' = Append(BoW_transform_pkl, vocabulary)
          /\ pc' = "fitted" /\ UNCHANGED error
  /\ UNCHANGED <<env, files, learned_booster_pkl, stdout, loaded,
                 clean_training_data, clean_testing_data,
                 training_BoW_features, testing_BoW_features, clf,
                 raw_review, result>>

Transform_fit_transform ==
  /\ pc = "fitted"
  /\ training_BoW_features' = transform(BoW_transform, clean_training_data)
  /\ \E vocabulary \in fit(clean_testing_data) :
       /\ BoW_transform' = vocabulary
       /\ testing_BoW_features' = transform(vocabulary, clean_testing_data)
  /\ pc' = "transformed"
  /\ UNCHANGED <<env, files, BoW_transform_pkl, learned_booster_pkl, stdout,
                 error, loaded, clean_training_data, clean_testing_data,
                 clf, raw_review, result>>

\* cell 10: both cleaned sets are transformed with the fitted vocabulary
Transform ==
  /\ pc = "fitted"
  /\ training_BoW_features' = transform(BoW_transform, clean_training_data)
  /\ testing_BoW_features' = transform(BoW_transform, clean_testing_data)
  /\ pc' = "transformed"
  /\ UNCHANGED <<env, files, BoW_transform_pkl, learned_booster_pkl, stdout,
                 error, loaded, clean_training_data, clean_testing_data,
                 BoW_transform, clf, raw_review, result>>

Normalize_skipped ==
  /\ pc = "transformed"
  /\ pc' = "normalized"
  /\ UNCHANGED <<env, files, BoW_transform_pkl, learned_booster_pkl, stdout,
                 error, loaded, clean_training_data, clean_testing_data,
                 BoW_transform, training_BoW_features, testing_BoW_features,
                 clf, raw_review, result>>

\* cell 23: both matrices are normalized row by row, the training one
\* first; normalize raises ValueError on a matrix of no rows
Normalize ==
  /\ pc = "transformed"
  /\ IF Len(training_BoW_features) = 0
     THEN /\ pc' = "failed" /\ error' = "normalize"
          /\ UNCHANGED <<training_BoW_features, testing_BoW_features>>
     ELSE /\ training_BoW_features' = normalize(training_BoW_features)
          /\ IF Len(testing_BoW_features) = 0
             THEN /\ pc' = "failed" /\ error' = "normalize"
                  /\ UNCHANGED testing_BoW_features
             ELSE /\ testing_BoW_features' = normalize(testing_BoW_features)
                  /\ pc' = "normalized" /\ UNCHANGED error
  /\ UNCHANGED <<env, files, BoW_transform_pkl, learned_booster_pkl, stdout,
                 loaded, clean_training_data, clean_testing_data,
                 BoW_transform, clf, raw_review, result>>

printed_test_first(train_accuracy, test_accuracy) ==
  << [text |-> "done training boosted classifier", value |-> <<>>],
     [text |-> "accuracy on testing set is ",
      value |-> <<test_accuracy.correct, test_accuracy.total>>],
     [text |-> "accuracy on training set is ",
      value |-> <<train_accuracy.correct, train_accuracy.total>>] >>

\* the three lines perform_classification prints
printed(train_accuracy, test_accuracy) ==
  << [text |-> "done training boosted classifier", value |-> <<>>],
     [text |-> "accuracy on training set is ",
      value |-> <<train_accuracy.correct, train_accuracy.total>>],
     [text |-> "accuracy on testing set is ",
      value |-> <<test_accuracy.correct, test_accuracy.total>>] >>

PerformClassification_dumps_last ==
  /\ pc = "normalized"
  /\ IF fit_raises(training_labels)
     THEN /\ pc' = "failed" /\ error' = "clf.fit"
          /\ UNCHANGED <<clf, learned_booster_pkl, stdout>>
     ELSE /\ \E model \in fitted_classifiers(training_BoW_features,
                                             training_labels,
                                             testing_BoW_features) :
               /\ clf' = model
               /\ IF score_raises(testing_labels)
                  THEN /\ pc' = "failed" /\ error' = "clf.score"
                       /\ UNCHANGED <<learned_booster_pkl, stdout>>
                  ELSE /\ learned_booster_pkl' =
                            Append(learned_booster_pkl, model)
                       /\ stdout' = stdout \o
                            printed(score(model, training_BoW_features,
                                          training_labels),
                                    score(model, testing_BoW_features,
                                          testing_labels))
                       /\ pc' = "done" /\ UNCHANGED error
  /\ UNCHANGED <<env, files, BoW_transform_pkl, loaded, clean_training_data,
                 clean_testing_data, BoW_transform, training_BoW_features,
                 testing_BoW_features, raw_review, result>>

PerformClassification_refit ==
  /\ pc = "normalized"
  /\ ~fit_raises(training_labels)
  /\ ~score_raises(testing_labels)
  /\ \E model, refitted \in fitted_classifiers(training_BoW_features,
                                                training_labels,
                                                testing_BoW_features) :
       /\ clf' = refitted
       /\ learned_booster_pkl' = Append(learned_booster_pkl, model)
       /\ stdout' = stdout \o
            printed(score(refitted, training_BoW_features, training_labels),
                    score(refitted, testing_BoW_features, testing_labels))
  /\ pc' = "done" /\ UNCHANGED error
  /\ UNCHANGED <<env, files, BoW_transform_pkl, loaded, clean_training_data,
                 clean_testing_data, BoW_transform, training_BoW_features,
                 testing_BoW_features, raw_review, result>>

\* cell 24: perform_classification(training_BoW_features, training_labels,
\* testing_BoW_features, testing_labels): fit, dump, both scores, then the
\* three prints; a score that raises comes after the dump and before the
\* prints
PerformClassification ==
  /\ pc = "normalized"
  /\ IF fit_raises(training_labels)
     THEN /\ pc' = "failed" /\ error' = "clf.fit"
          /\ UNCHANGED <<clf, learned_booster_pkl, stdout>>
     ELSE /\ \E model \in fitted_classifiers(training_BoW_features,
                                             training_labels,
                                             testing_BoW_features) :
               /\ clf' = model
               /\ learned_booster_pkl' = Append(learned_booster_pkl, model)
               /\ IF score_raises(testing_labels)
                  THEN /\ pc' = "failed" /\ error' = "clf.score"
                       /\ UNCHANGED stdout
                  ELSE /\ stdout' = stdout \o
                            printed(score(model, training_BoW_features,
                                          training_labels),
                                    score(model, testing_BoW_features,
                                          testing_labels))
                       /\ pc' = "done" /\ UNCHANGED error
  /\ UNCHANGED <<env, files, BoW_transform_pkl, loaded, clean_training_data,
                 clean_testing_data, BoW_transform, training_BoW_features,
                 testing_BoW_features, raw_review, result>>

Next ==
  \/ LoadData
  \/ CleanData
  \/ MakeBoWTransform
  \/ Transform
  \/ Normalize
  \/ PerformClassification

Spec == Init /\ [][Next]_vars

(***************************************************************************)
(* review_to_words called directly, then again on what it returned         *)
(***************************************************************************)
InitCall ==
  /\ InitEnv
  /\ InitNotebook
  /\ training_file = NoFile
  /\ testing_file = NoFile
  /\ raw_review \in RawReviews
  /\ result = <<>>

CallReviewToWords ==
  /\ Len(result) < 2
  /\ result' = Append(result,
                      review_to_words(IF result = <<>> THEN raw_review
                                      ELSE result[Len(result)]))
  /\ UNCHANGED <<env, files, BoW_transform_pkl, learned_booster_pkl, stdout,
                 pc, error, loaded, clean_training_data, clean_testing_data,
                 BoW_transform, training_BoW_features, testing_BoW_features,
                 clf, raw_review>>

NextCall == CallReviewToWords

SpecCall == InitCall /\ [][NextCall]_vars

(***************************************************************************)
(* Claims                                                                  *)
(***************************************************************************)
\* the text a direct call of review_to_words was handed: the raw review for
\* the first call, the previous result for the second
Argument(i) == IF i = 1 THEN raw_review ELSE result[i - 1]

\* the words of a text of letters and blanks, cut at the blanks
Tokens(text) == split(text)

NonStop(words) == SelectSeq(words, LAMBDA w : w \notin stopwords_english)

Stems(words) == [i \in 1..Len(words) |-> stem(words[i])]

\* C1 as stated: cleaning a cleaned string returns it unchanged,
\* review_to_words(review_to_words(r)) = review_to_words(r).
C1_Idempotent == Len(result) = 2 => result[2] = result[1]

\* C1, amended: cleaning a cleaned string leaves its letters and blanks as
\* they are and only drops its stop-word tokens and stems the others again:
\* review_to_words(review_to_words(r)) is the space-joined stems of the
\* tokens of review_to_words(r) that are not stop words; it is
\* review_to_words(r) itself when none of its tokens is a stop word and the
\* stemmer leaves each of them unchanged.
C1_RecleanRestems ==
  Len(result) = 2 =>
    LET tokens == Tokens(result[1])
    IN  /\ result[2] = join(<<" ">>, Stems(NonStop(tokens)))
        /\ (\A i \in 1..Len(tokens) :
              tokens[i] \notin stopwords_english /\ stem(tokens[i]) = tokens[i])
           => result[2] = result[1]

\* C1's case: a cleaned string of a stop word and another token, cleaned
\* again into a different, non-empty string
C1_Witness ==
  /\ Len(result) = 2
  /\ \E i \in 1..Len(Tokens(result[1])) : Tokens(result[1])[i] \in stopwords_english
  /\ result[2] # <<>>
  /\ result[2] # result[1]

\* a cleaned document is tokens joined by single blanks: letters a-z and
\* blanks only, no blank first or last, no two blanks in a row
WellFormed(text) ==
  /\ \A k \in 1..Len(text) : IsLower(text[k]) \/ text[k] = " "
  /\ text # <<>> => text[1] # " " /\ text[Len(text)] # " "
  /\ \A k \in 1..Len(text) - 1 : ~(text[k] = " " /\ text[k + 1] = " ")

\* the lowercased letter-only words of a raw text
InputWords(text) == split(lower(re_sub_non_letters(get_text(text))))

\* C10 as stated: every cleaned document is non-empty lowercase tokens joined
\* by single blanks, none of the tokens a stop word, and is empty when no
\* token survives.
C10_NoStopWordToken ==
  \A i \in 1..Len(result) :
    LET tokens == Tokens(result[i])
        words == InputWords(Argument(i))
    IN  /\ WellFormed(result[i])
        /\ \A k \in 1..Len(tokens) : tokens[k] \notin stopwords_english
        /\ (NonStop(words) = <<>> => result[i] = <<>>)

\* C10, amended: every cleaned document is non-empty tokens of lowercase
\* letters a-z joined by single blanks, with no blank first or last; each
\* token is the stem of a word of the review that is not a stop word (the
\* stem itself may be one); the document is empty exactly when no word of the
\* review survives the stop-word filter.
C10_CleanedDocument ==
  \A i \in 1..Len(result) :
    LET tokens == Tokens(result[i])
        kept == NonStop(InputWords(Argument(i)))
        stems == {stem(kept[j]) : j \in 1..Len(kept)}
    IN  /\ WellFormed(result[i])
        /\ \A k \in 1..Len(tokens) : tokens[k] \in stems
        /\ (kept = <<>> <=> result[i] = <<>>)

\* C10's case: a review with markup and a capital letter whose cleaned
\* document holds two tokens or more, one of them a stop word
C10_Witness ==
  /\ Len(result) >= 1
  /\ \E k \in 1..Len(raw_review) : raw_review[k] = "<"
  /\ \E k \in 1..Len(raw_review) : IsUpper(raw_review[k])
  /\ Len(Tokens(result[1])) >= 2
  /\ \E k \in 1..Len(Tokens(result[1])) : Tokens(result[1])[k] \in stopwords_english

\* the number of times token t stands in a cleaned document
CountIn(t, doc) == Cardinality({k \in 1..Len(Tokens(doc)) : Tokens(doc)[k] = t})

\* the number of times token t stands in a cleaned corpus
CorpusCount(t, docs) == SumSeq([d \in 1..Len(docs) |-> CountIn(t, docs[d])])

\* the tokens of a cleaned corpus the vectorizer counts: two letters or more
Eligible(docs) ==
  {t \in UNION {Range(Tokens(docs[d])) : d \in 1..Len(docs)} : Len(t) >= 2}

Fitted == BoW_transform # <<>>

IsZero(v) == \A j \in 1..Len(v) : v[j] = 0

\* C2: the vocabulary comes from the cleaned training documents only and
\* stays, through both transforms and everything after, exactly what
\* make_BoW_transform returned (and dumped): same tokens, same positions; a
\* token that stands only in testing documents is never in it.
C2_VocabularyFixed ==
  Fitted =>
    /\ BoW_transform_pkl # <<>>
    /\ BoW_transform = BoW_transform_pkl[1]
    /\ \A j \in 1..Len(BoW_transform) :
         BoW_transform[j] \in Eligible(clean_training_data)

\* C2's case: both sets were transformed, and a testing document holds a
\* token that no training document holds
C2_Witness ==
  /\ pc \in {"transformed", "normalized", "done"}
  /\ Eligible(clean_testing_data) \ Eligible(clean_training_data) # {}

\* C3: the vocabulary holds no token twice and never more than max_features
\* tokens, and holds every eligible training token when these are no more
\* than max_features.
C3_VocabularySize ==
  Fitted =>
    /\ Len(BoW_transform) <= max_features
    /\ Cardinality(Range(BoW_transform)) = Len(BoW_transform)
    /\ Cardinality(Eligible(clean_training_data)) <= max_features
         => Len(BoW_transform) = Cardinality(Eligible(clean_training_data))

\* C3's case: the training corpus holds more eligible tokens than
\* max_features, and a one-letter token beside them
C3_Witness ==
  /\ Fitted
  /\ Cardinality(Eligible(clean_training_data)) > max_features
  /\ Len(BoW_transform) = max_features
  /\ \E d \in 1..Len(clean_training_data) :
       \E k \in 1..Len(Tokens(clean_training_data[d])) :
         Len(Tokens(clean_training_data[d])[k]) = 1

\* C4: every row of both feature matrices, before and after normalization,
\* is as long as the vocabulary and holds no negative entry.
C4_VectorShape ==
  \A X \in {training_BoW_features, testing_BoW_features} :
    \A d \in 1..Len(X) :
      /\ Len(X[d].num) = Len(BoW_transform)
      /\ X[d].den2 > 0
      /\ \A j \in 1..Len(X[d].num) : X[d].num[j] >= 0

\* C4's case: both matrices are normalized, over a vocabulary of two tokens,
\* and the testing document holds tokens the vocabulary lacks
C4_Witness ==
  /\ pc = "normalized"
  /\ Len(BoW_transform) = 2
  /\ \E d \in 1..Len(training_BoW_features) : training_BoW_features[d].den2 > 1
  /\ \E d \in 1..Len(testing_BoW_features) :
       /\ clean_testing_data[d] # <<>>
       /\ IsZero(testing_BoW_features[d].num)

\* C5: every token of the vocabulary stands in the training corpus at least
\* as often as every eligible training token left out of it.
C5_MostFrequentKept ==
  Fitted =>
    \A j \in 1..Len(BoW_transform) :
      \A o \in Eligible(clean_training_data) \ Range(BoW_transform) :
        CorpusCount(BoW_transform[j], clean_training_data)
          >= CorpusCount(o, clean_training_data)

\* C5's case: more eligible tokens than max_features, and a token left out
\* that is rarer than a token kept
C5_Witness ==
  /\ Fitted
  /\ Cardinality(Eligible(clean_training_data)) > max_features
  /\ \E j \in 1..Len(BoW_transform) :
       \E o \in Eligible(clean_training_data) \ Range(BoW_transform) :
         CorpusCount(BoW_transform[j], clean_training_data)
           > CorpusCount(o, clean_training_data)

\* the rows of X are the counts of the vocabulary tokens in the documents
CountsOf(X, docs) ==
  /\ Len(X) = Len(docs)
  /\ \A d \in 1..Len(X) :
       /\ X[d].den2 = 1
       /\ Len(X[d].num) = Len(BoW_transform)
       /\ \A j \in 1..Len(BoW_transform) :
            X[d].num[j] = CountIn(BoW_transform[j], docs[d])
       /\ SumSeq(X[d].num) =
            Cardinality({k \in 1..Len(Tokens(docs[d])) :
                           Tokens(docs[d])[k] \in Range(BoW_transform)})
       /\ Range(Tokens(docs[d])) \cap Range(BoW_transform) = {}
            => IsZero(X[d].num)

\* C6: transform gives, at each vocabulary position, the number of times
\* that token stands in the document; tokens outside the vocabulary add to
\* no entry; a document of such tokens only gets the zero vector, and
\* transform raises nothing: a run that fails after the vocabulary was
\* fitted fails with both matrices already made.
C6_TransformCounts ==
  /\ pc = "transformed" =>
       /\ CountsOf(training_BoW_features, clean_training_data)
       /\ CountsOf(testing_BoW_features, clean_testing_data)
  /\ (pc = "failed" /\ Fitted) =>
       /\ Len(training_BoW_features) = Len(clean_training_data)
       /\ Len(testing_BoW_features) = Len(clean_testing_data)

\* C6's case: a testing document of tokens outside the vocabulary only, and
\* a training document that holds a vocabulary token twice
C6_Witness ==
  /\ pc = "transformed"
  /\ \E d \in 1..Len(clean_testing_data) :
       /\ Eligible(<<clean_testing_data[d]>>) # {}
       /\ Range(Tokens(clean_testing_data[d])) \cap Range(BoW_transform) = {}
       /\ IsZero(testing_BoW_features[d].num)
  /\ \E d \in 1..Len(training_BoW_features) :
       \E j \in 1..Len(BoW_transform) : training_BoW_features[d].num[j] = 2

\* the rows of X, normalized, are of norm 1 or zero, and zero exactly for
\* the documents that hold no vocabulary token
UnitOrZero(X, docs) ==
  \A d \in 1..Len(X) :
    /\ X[d].den2 > 0
    /\ IsZero(X[d].num) \/ SumSquares(X[d].num) = X[d].den2
    /\ IsZero(X[d].num) <=>
         \A j \in 1..Len(BoW_transform) : CountIn(BoW_transform[j], docs[d]) = 0

\* C7: after normalize(X, axis = 1) every row num / sqrt(den2) has norm 1
\* (the sum of the squares of num is den2) or is the zero vector, and it is
\* the zero vector exactly when the document's count vector was all zero.
C7_UnitNormOrZero ==
  pc \in {"normalized", "done"} =>
    /\ UnitOrZero(training_BoW_features, clean_training_data)
    /\ UnitOrZero(testing_BoW_features, clean_testing_data)

\* C7's case: a normalized row with two non-zero entries, and a
\* zero row of a document that is not empty
C7_Witness ==
  /\ pc = "normalized"
  /\ Len(BoW_transform) = 2
  /\ \E d \in 1..Len(training_BoW_features) :
       /\ training_BoW_features[d].num[1] > 0
       /\ training_BoW_features[d].num[2] > 0
       /\ training_BoW_features[d].den2 = 2
  /\ \E X \in {<<training_BoW_features, clean_training_data>>,
               <<testing_BoW_features, clean_testing_data>>} :
       \E d \in 1..Len(X[1]) : IsZero(X[1][d].num) /\ X[2][d] # <<>>

\* both files were read
Loaded == pc \notin {"start"} /\ error # "load_data"

\* both sets were cleaned
Cleaned == Loaded /\ pc # "loaded" /\ error # "clean_data"

BothLoaded ==
  /\ training_file.exists /\ testing_file.exists
  /\ training_data = load_data(training_file).data
  /\ training_labels = load_data(training_file).labels
  /\ testing_data = load_data(testing_file).data
  /\ testing_labels = load_data(testing_file).labels

\* both cleaned sets are the cleaned reviews of the datasets
BothCleaned ==
  /\ BothLoaded
  /\ clean_training_data = clean_data(training_data)
  /\ clean_testing_data = clean_data(testing_data)

\* both matrices are the counts of the cleaned sets against the vocabulary
BothTransformed ==
  /\ Fitted
  /\ training_BoW_features = transform(BoW_transform, clean_training_data)
  /\ testing_BoW_features = transform(BoW_transform, clean_testing_data)

\* both matrices are the normalized counts
BothNormalized ==
  /\ Fitted
  /\ training_BoW_features =
       normalize(transform(BoW_transform, clean_training_data))
  /\ testing_BoW_features =
       normalize(transform(BoW_transform, clean_testing_data))

\* what each step of a run finds done when it starts
StepInOrder ==
  /\ (clean_training_data' # clean_training_data
        \/ clean_testing_data' # clean_testing_data)
       => BothLoaded /\ ~Fitted
  /\ BoW_transform' # BoW_transform
       => /\ BothCleaned
          /\ BoW_transform' \in fit(clean_training_data)
          /\ training_BoW_features = <<>> /\ testing_BoW_features = <<>>
  /\ (training_BoW_features' # training_BoW_features
        \/ testing_BoW_features' # testing_BoW_features)
       => \/ /\ Fitted
             /\ training_BoW_features = <<>> /\ testing_BoW_features = <<>>
             /\ training_BoW_features' =
                  transform(BoW_transform, clean_training_data)
             /\ testing_BoW_features' =
                  transform(BoW_transform, clean_testing_data)
          \/ /\ BothTransformed
             /\ training_BoW_features' = normalize(training_BoW_features)
             /\ testing_BoW_features' \in
                  {testing_BoW_features, normalize(testing_BoW_features)}
  /\ clf' # clf
       => /\ BothNormalized
          /\ clf = unfitted /\ stdout = <<>>
          /\ clf' \in fitted_classifiers(training_BoW_features, training_labels,
                                         testing_BoW_features)
  /\ stdout' # stdout
       => /\ BothNormalized
          /\ clf' # unfitted
          /\ stdout' = printed(score(clf', training_BoW_features,
                                     training_labels),
                               score(clf', testing_BoW_features,
                                     testing_labels))

\* C11: the steps of every run come in the stated order: cleaning starts
\* from both datasets loaded; the vocabulary is fitted on the cleaned
\* training documents before any document is transformed; normalization
\* starts from both matrices of counts; the classifier is fitted on the
\* normalized training matrix, and the accuracies are those of the fitted
\* classifier.
C11_StepsInOrder == [][StepInOrder]_vars

\* C11's case: a run came to its end with a training row whose normalized
\* form is not its counts
C11_Witness ==
  /\ pc = "done"
  /\ \E d \in 1..Len(training_BoW_features) : training_BoW_features[d].den2 > 1

\* the printed lines that hold an accuracy figure
Figures == SelectSeq(stdout, LAMBDA line : line.value # <<>>)

Fraction(accuracy) == <<accuracy.correct, accuracy.total>>

\* C12: each file is written at most once and holds what its fit left, so
\* it is written only after that fit; a run that came to its end has written
\* both, BoW_transform.pkl with the fitted vocabulary and learned_booster.pkl
\* with the fitted classifier, and has printed exactly two accuracy figures,
\* the training accuracy first and the testing accuracy second.
C12_TwoArtifactsTwoFigures ==
  /\ Len(BoW_transform_pkl) <= 1
  /\ Len(learned_booster_pkl) <= 1
  /\ BoW_transform_pkl # <<>> =>
       /\ BoW_transform_pkl[1] = BoW_transform
       /\ BoW_transform \in fit(clean_training_data)
  /\ learned_booster_pkl # <<>> =>
       /\ learned_booster_pkl[1] = clf
       /\ clf \in fitted_classifiers(training_BoW_features, training_labels,
                                     testing_BoW_features)
  /\ pc = "done" =>
       /\ Len(BoW_transform_pkl) = 1
       /\ Len(learned_booster_pkl) = 1
       /\ Len(Figures) = 2
       /\ Figures[1].text = "accuracy on training set is "
       /\ Figures[1].value =
            Fraction(score(clf, training_BoW_features, training_labels))
       /\ Figures[2].text = "accuracy on testing set is "
       /\ Figures[2].value =
            Fraction(score(clf, testing_BoW_features, testing_labels))

\* C12's case: a run came to its end and the two accuracies differ
C12_Witness ==
  /\ pc = "done"
  /\ Len(Figures) = 2
  /\ Figures[1].value # Figures[2].value

\* the steps of a run in their order, and the step each failure belongs to
StepOf(position) ==
  CASE position \in {"start"} -> 0
    [] position \in {"loaded", "load_data"} -> 1
    [] position \in {"cleaned", "clean_data"} -> 2
    [] position \in {"fitted", "BoW_transform.fit"} -> 3
    [] position \in {"transformed"} -> 4
    [] position \in {"normalized", "normalize"} -> 5
    [] position \in {"done", "clf.fit", "clf.score"} -> 6

\* the last step the run went into
Reached == IF pc = "failed" THEN StepOf(error) ELSE StepOf(pc)

HoldsNaN(dataset) == \E i \in 1..Len(dataset) : dataset[i] = NaN

\* the step that fails on these files, 7 when none does
FailingStep ==
  IF ~training_file.exists \/ ~testing_file.exists THEN 1
  ELSE IF HoldsNaN(load_data(training_file).data)
            \/ HoldsNaN(load_data(testing_file).data) THEN 2
  ELSE IF Reached >= 3 /\ Eligible(clean_training_data) = {} THEN 3
  ELSE IF Reached >= 5 /\ testing_file.rows = <<>> THEN 5
  ELSE IF Reached >= 6
            /\ (Cardinality(Range(load_data(training_file).labels)) < 2
                 \/ missing \in Range(load_data(testing_file).labels)) THEN 6
  ELSE 7

\* nothing a step from number k on assigns, writes or prints is there
NothingFrom(k) ==
  /\ k <= 2 => clean_testing_data = <<>>
  /\ k <= 3 => BoW_transform = <<>> /\ BoW_transform_pkl = <<>>
  /\ k <= 4 => training_BoW_features = <<>> /\ testing_BoW_features = <<>>
  /\ k <= 5 => clf = unfitted /\ learned_booster_pkl = <<>>
  /\ k <= 6 => stdout = <<>>

\* C13: a run goes no further than the first step that fails: it stops
\* there with that step's failure, no step is taken from a failed run (the
\* failed step is not run again, no later step is run), and the failed call
\* hands back no value: what it and the later steps would assign, write or
\* print is not there.
C13_NoFailureCaught ==
  /\ Reached <= FailingStep
  /\ pc = "failed" =>
       /\ error \in {"load_data", "clean_data", "BoW_transform.fit",
                      "normalize", "clf.fit", "clf.score"}
       /\ Reached = FailingStep
       /\ ~ENABLED Next
       /\ NothingFrom(Reached + 1)
       /\ error = "load_data" =>
            /\ testing_data = <<>> /\ testing_labels = <<>>
            /\ ~training_file.exists =>
                 training_data = <<>> /\ training_labels = <<>>
            /\ NothingFrom(2) /\ clean_training_data = <<>>
       /\ error = "clean_data" =>
            /\ clean_testing_data = <<>>
            /\ HoldsNaN(training_data) => clean_training_data = <<>>
       /\ error = "BoW_transform.fit" => NothingFrom(3)
       /\ error = "normalize" =>
            testing_BoW_features = transform(BoW_transform, clean_testing_data)
       /\ error = "clf.fit" => NothingFrom(5)
       /\ error = "clf.score" => stdout = <<>>

\* C13's case: clean_data failed on the testing set after the training set
\* was cleaned
C13_Witness ==
  /\ pc = "failed"
  /\ error = "clean_data"
  /\ clean_training_data # <<>>
  /\ HoldsNaN(testing_data)

\* one step of a run, as far as the classifier goes
FitOnce ==
  /\ clf' # clf =>
       /\ clf = unfitted
       /\ learned_booster_pkl = <<>>
       /\ clf' \in fitted_classifiers(training_BoW_features, training_labels,
                                      testing_BoW_features)
       /\ learned_booster_pkl' = <<clf'>>
  /\ learned_booster_pkl' # learned_booster_pkl => clf' # clf
  /\ stdout' # stdout =>
       /\ clf' = learned_booster_pkl'[1]
       /\ stdout' =
            printed(score(learned_booster_pkl'[1], training_BoW_features,
                          training_labels),
                    score(learned_booster_pkl'[1], testing_BoW_features,
                          testing_labels))

\* C14: the classifier is fitted once in a run: it changes in one step only,
\* from unfitted to the result of fit; that step dumps the fitted classifier,
\* and the accuracies it prints are the scores of the dumped classifier,
\* which is the classifier the step leaves.
C14_ModelFitOnce == [][FitOnce]_vars

\* C14's case: a run came to its end where fit had more than one classifier
\* to leave
C14_Witness ==
  /\ pc = "done"
  /\ learned_booster_pkl = <<clf>>
  /\ Cardinality(fitted_classifiers(training_BoW_features, training_labels,
                                    testing_BoW_features)) > 1

\* sequence s without its e-th element
RemoveAt(s, e) ==
  [i \in 1..Len(s) - 1 |-> IF i < e THEN s[i] ELSE s[i + 1]]

\* the normalized row d of matrix X is that of its count vector alone, and
\* stays the same when another row is removed, replaced by one of others or
\* one of others is added
OwnCountsOnly(X, counts, others) ==
  \A d \in 1..Len(X) :
    /\ X[d] = normalize(<<counts[d]>>)[1]
    /\ \A e \in 1..Len(X) \ {d} :
         /\ normalize(RemoveAt(counts, e))[IF e < d THEN d - 1 ELSE d] = X[d]
         /\ \A k \in 1..Len(others) :
              normalize([counts EXCEPT ![e] = others[k]])[d] = X[d]
    /\ \A k \in 1..Len(others) :
         normalize(Append(counts, others[k]))[d] = X[d]

\* C15: a document's normalized vector is a function of its own count
\* vector only: it is what normalize gives for that vector alone, it does not
\* change when another document of the set is removed, changed or added, and
\* documents of either set with equal count vectors have equal normalized
\* vectors.
C15_NormalizedPerDocument ==
  pc \in {"normalized", "done"} =>
    \A train \in {transform(BoW_transform, clean_training_data)} :
      \A test \in {transform(BoW_transform, clean_testing_data)} :
        /\ OwnCountsOnly(training_BoW_features, train, train \o test)
        /\ OwnCountsOnly(testing_BoW_features, test, train \o test)
        /\ \A d \in 1..Len(train) : \A e \in 1..Len(test) :
             train[d] = test[e] =>
               training_BoW_features[d] = testing_BoW_features[e]

\* C15's case: two training documents with different counts, neither zero,
\* and a testing document with the counts of the first
C15_Witness ==
  /\ pc = "normalized"
  /\ Len(training_BoW_features) = 2
  /\ training_BoW_features[1].num # training_BoW_features[2].num
  /\ training_BoW_features[1].den2 # training_BoW_features[2].den2
  /\ ~IsZero(training_BoW_features[1].num)
  /\ ~IsZero(training_BoW_features[2].num)
  /\ Len(testing_BoW_features) = 1
  /\ testing_BoW_features[1] = training_BoW_features[1]

\* cleaned is one cleaned string per review of dataset, in its order
OnePerReview(cleaned, dataset) ==
  /\ Len(cleaned) = Len(dataset)
  /\ \A i \in 1..Len(dataset) : cleaned[i] = review_to_words(dataset[i])
  /\ dataset = <<>> => cleaned = <<>>

\* C16: what clean_data returned holds one cleaned string per review of the
\* dataset, in dataset order: it is as long as the dataset, its i-th element
\* is review_to_words of the i-th review, and it is the empty list for an
\* empty dataset.
C16_OneCleanedPerReview ==
  /\ pc = "cleaned" =>
       /\ OnePerReview(clean_training_data, training_data)
       /\ OnePerReview(clean_testing_data, testing_data)
  /\ (pc = "failed" /\ error = "clean_data" /\ ~HoldsNaN(training_data)) =>
       OnePerReview(clean_training_data, training_data)

\* C16's case: a training set of two reviews cleaned to different strings,
\* the first of them changed by cleaning, and an empty testing set
C16_Witness ==
  /\ pc = "cleaned"
  /\ Len(training_data) = 2
  /\ clean_training_data[1] # clean_training_data[2]
  /\ clean_training_data[1] # training_data[1]
  /\ testing_data = <<>>
  /\ clean_testing_data = <<>>

\* C17: the tokens of what review_to_words returns are, in the order of the
\* input, the stems of exactly those lowercased letter-only words of the
\* input that are not stop words: a word is dropped only when it is itself a
\* stop word, whatever its stem is, and nothing is added, doubled or moved.
C17_StopWordsOutThenStems ==
  \A i \in 1..Len(result) :
    LET words == InputWords(Argument(i))
        tokens == Tokens(result[i])
        kept == {k \in 1..Len(words) : words[k] \notin stopwords_english}
    IN  /\ tokens = Stems(NonStop(words))
        /\ Len(tokens) = Cardinality(kept)
        /\ \A k \in kept :
             tokens[Cardinality({j \in kept : j <= k})] = stem(words[k])

\* C17's case: a review with a stop word, which is dropped, and a word that
\* is no stop word but whose stem is one, which is kept
C17_Witness ==
  /\ Len(result) >= 1
  /\ Len(InputWords(raw_review)) = 2
  /\ \E k \in 1..2 : InputWords(raw_review)[k] \in stopwords_english
  /\ Len(Tokens(result[1])) = 1
  /\ Tokens(result[1])[1] \in stopwords_english

\* function f on the elements of S only
Restrict(f, S) == [x \in S |-> f[x]]

\* what a run has learned is what the training file alone allows: docs are
\* the cleaned reviews of the training file, labels its sentiments
LearnedFrom(docs, labels) ==
  /\ Fitted => BoW_transform \in fit(docs)
  /\ pc = "transformed" =>
       training_BoW_features = transform(BoW_transform, docs)
  /\ (pc \in {"normalized", "done"} \/ clf # unfitted) =>
       \A X_train \in {normalize(transform(BoW_transform, docs))} :
         /\ training_BoW_features = X_train
         /\ clf # unfitted =>
              \A model \in {[fitted |-> TRUE,
                              predict |-> Restrict(clf.predict, Range(X_train))]} :
                /\ model \in fitted_classifiers(X_train, labels, <<>>)
                /\ pc = "done" =>
                     Figures[1].value = Fraction(score(model, X_train, labels))

C19_DumpedBeforeUse ==
  /\ (pc = "failed" /\ error = "clf.score") =>
       /\ clf # unfitted
       /\ learned_booster_pkl = <<clf>>
       /\ stdout = <<>>
  /\ (pc = "failed" /\ error \in {"normalize", "clf.fit", "clf.score"}) =>
       /\ Fitted
       /\ BoW_transform_pkl = <<BoW_transform>>
  /\ (training_BoW_features # <<>> \/ testing_BoW_features # <<>>) =>
       BoW_transform_pkl = <<BoW_transform>>
  /\ stdout # <<>> => learned_booster_pkl = <<clf>>

\* C19's case: the testing score failed on a missing label after the
\* classifier was fitted on two classes
C19_Witness ==
  /\ pc = "failed"
  /\ error = "clf.score"
  /\ missing \in Range(testing_labels)
  /\ learned_booster_pkl # <<>>
  /\ BoW_transform_pkl # <<>>

\* both printed accuracies are fractions between 0 and 1
AccuracyInUnitInterval ==
  \A k \in 1..Len(stdout) :
    stdout[k].value # <<>> =>
      /\ stdout[k].value[2] > 0
      /\ 0 <= stdout[k].value[1]
      /\ stdout[k].value[1] <= stdout[k].value[2]

====
